---- MODULE Spec2Model ----
(***************************************************************************)
(* Model of jsons2mysql.py: Worker.run (the batch scheduler on the QThread) *)
(* and Worker.process_file (one unit per file on the ThreadPoolExecutor),   *)
(* against the data_json table created by JsonToDatabaseApp.connect_to_db,  *)
(* and the window's handlers connect_to_db, open_file_dialog and            *)
(* send_to_database, which decide whether a Worker is started.              *)
(*                                                                         *)
(* File paths are the positions 1..N of file_list (the paths come from      *)
(* os.listdir, so they are distinct); Python's 0-based index i is i+1 here. *)
(***************************************************************************)
EXTENDS Integers, Sequences, FiniteSets, TLC

\* Bounds of the model.
MaxFiles == 3
PoolFiles == 6
AppFiles == 2
LiveFiles == 2
MaxKey == 2
MaxBatch == 2

\* Program constants.
max_workers == 5
pool_size == 5
app_batch_size == 500

VARIABLES
    file_list,      \* Worker.file_list: the paths, in order
    content,        \* what each path holds on disk
    batch_size,     \* Worker.batch_size
    disk,           \* the paths that still exist
    rows,           \* committed rows of data_json
    runPc,          \* position of Worker.run
    index,          \* run's loop variable (1-based)
    futures,        \* run's local list of futures (the units awaited next)
    waitIdx,        \* position of "for future in futures"
    loaded_files,   \* run's local counter
    duplicates,     \* run's local list shared with every unit
    exc,            \* TRUE when an exception is propagating out of run's with block
    pc,             \* position of each unit (process_file call)
    outcome,        \* how each unit ended: result or exception class
    count,          \* each unit's result[0] of the COUNT query
    inUse,          \* units holding a pooled connection
    connOf,         \* the connection (1..pool_size) each unit holds, 0 for none
    acquired,       \* how often each unit took a connection from the pool
    released,       \* how often each unit gave a connection back
    events,         \* signals emitted, in order
    logged,         \* logging.error records
    elapsed,        \* 1 once time.time() has moved past start_time, else 0
    preExisting,    \* units whose adresNo had a row when the unit started
    window          \* the JsonToDatabaseApp: pool, db_status_label, the number
                    \* of entries of its file_list widget, the title of the
                    \* last QMessageBox, how the last connect_to_db ended

vars == <<file_list, content, batch_size, disk, rows, runPc, index, futures,
          waitIdx, loaded_files, duplicates, exc, pc, outcome, count, inUse,
          events, logged, elapsed, preExisting, connOf, acquired, released,
          window>>

\* What the Worker never writes: its inputs and the window.
inputVars == <<file_list, content, batch_size, window>>
runVars == <<runPc, index, futures, waitIdx, loaded_files, exc, elapsed>>
poolVars == <<inUse, connOf, acquired, released>>

Keys == 1..MaxKey

\* What a path can hold: a file open() or json.load fails on
\* ("undecodable"), a JSON object lacking acikAdresModel or adresNo
\* ("incomplete"), or a record with its key. Which of the two failures, and
\* which of the two keys, shows where the unit meets it.
Contents ==
    {[kind |-> k, adresNo |-> 0] : k \in {"undecodable", "incomplete"}}
    \cup {[kind |-> "record", adresNo |-> k] : k \in Keys}

Files == 1..Len(file_list)
total_files == Len(file_list)

IsRecord(f) == content[f].kind = "record"

\* Rows of data_json carrying a key; src is the unit that inserted the row
\* (0 for a row that was there before the run).
RowsOf(k) == {r \in rows : r.adresNo = k}

\* Mutant: the count is taken over a column that never matches.
SelectCountWrongColumn(k) == 0

\* SELECT COUNT(*) FROM data_json WHERE adresNo = %s
SelectCount(k) == Cardinality(RowsOf(k))

\* Mutant: the table is created without its primary key.
NoPrimaryKey(k) == FALSE

\* adresNo INT PRIMARY KEY: an insert of an existing key is refused.
PrimaryKeyViolation(k) == RowsOf(k) # {}

\* Mutant: the except clause names FileNotFoundError, so that a removal
\* refused for another reason (PermissionError) is not caught.
CaughtWithoutOSError(e) == e \in {"IOError", "JSONDecodeError"}

\* Mutant: the except clause names IOError alone.
CaughtIOErrorOnly(e) == e \in {"IOError", "OSError"}

\* except (IOError, json.JSONDecodeError): the only classes process_file catches.
Caught(e) == e \in {"IOError", "OSError", "JSONDecodeError"}

\* Exception classes a unit can end with.
Exceptions == {"IOError", "OSError", "JSONDecodeError", "KeyError",
               "InterfaceError", "OperationalError", "IntegrityError",
               "PoolError"}

\* future.result() re-raises what process_file let escape.
Raises(u) == outcome[u] \in Exceptions /\ ~Caught(outcome[u])

Signal(s, m, n, t) == [sig |-> s, msg |-> m, n |-> n, total |-> t]

\* Mutant: the conditional expression read as the right operand of "+".
CompletionMessageMisparsed(dups) ==
    IF Len(dups) > 0
    THEN [sig |-> "finished", msg |-> "Process completed. Duplicate files: ",
          n |-> Len(dups), total |-> 0]
    ELSE [sig |-> "finished", msg |-> "Process completed. All files sent successfully.",
          n |-> 0, total |-> 0]

\* Line 61-62: the conditional expression binds looser than "+".
CompletionMessage(dups) ==
    IF Len(dups) > 0
    THEN Signal("finished", "Process completed. Duplicate files: ", Len(dups), 0)
    ELSE Signal("finished", "All files sent successfully.", 0, 0)

ReadErrorMessage(f) ==
    Signal("finished", "Error: An error occurred while reading the file ", f, 0)

GeneralErrorMessage == Signal("finished", "Error: ", 0, 0)

Running == {u \in Files : pc[u] \notin {"idle", "queued", "done"}}

\* The window when send_to_database has started a Worker on n files: the
\* pool is set (line 247) and the list widget holds the n paths (line 252).
Sent(n) ==
    [pool |-> "pool", db_status_label |-> "Connected", items |-> n,
     box |-> "none", last_connect |-> "connected"]

\* Keys are only compared for equality, so the files' keys are taken up to
\* renaming: with the keys 1..stored in the table, a key first shows in the
\* list after the key below it, among the stored keys and among the others.
KeysInOrder(c, stored) ==
    \A i \in DOMAIN c :
        c[i].kind = "record" =>
            \/ c[i].adresNo \in {1, stored + 1}
            \/ \E j \in 1..(i - 1) :
                c[j].kind = "record" /\ c[j].adresNo = c[i].adresNo - 1

Init ==
    /\ \E n \in 1..MaxFiles :
        /\ file_list = [i \in 1..n |-> i]
        /\ content \in [1..n -> Contents]
        /\ disk = 1..n
        /\ pc = [i \in 1..n |-> "idle"]
        /\ outcome = [i \in 1..n |-> "none"]
        /\ count = [i \in 1..n |-> 0]
        /\ connOf = [i \in 1..n |-> 0]
        /\ acquired = [i \in 1..n |-> 0]
        /\ released = [i \in 1..n |-> 0]
        /\ window = Sent(n)
    /\ batch_size \in 1..MaxBatch
    \* The table holds any number of the keys; which ones is immaterial, the
    \* files' keys ranging over all of them.
    /\ \E stored \in 0..MaxKey :
        /\ rows = {[adresNo |-> k, src |-> 0] : k \in 1..stored}
        /\ KeysInOrder(content, stored)
    /\ runPc = "submit"
    /\ index = 1
    /\ futures = <<>>
    /\ waitIdx = 1
    /\ loaded_files = 0
    /\ duplicates = <<>>
    /\ exc = FALSE
    /\ inUse = {}
    /\ events = <<>>
    /\ logged = {}
    /\ elapsed = 0
    /\ preExisting = {}

----------------------------------------------------------------------------
\* Worker.process_file

\* Mutant: the connection is closed at the end of the block instead of by a
\* with statement, so a unit that leaves early keeps it.
FinishWithoutRelease(u, e) ==
    /\ pc' = [pc EXCEPT ![u] = "done"]
    /\ outcome' = [outcome EXCEPT ![u] = e]
    /\ IF e = "inserted"
       THEN /\ inUse' = inUse \ {u}
            /\ connOf' = [connOf EXCEPT ![u] = 0]
            /\ released' = [released EXCEPT ![u] = @ + 1]
       ELSE UNCHANGED <<inUse, connOf, released>>
    /\ UNCHANGED acquired

\* A unit ends: its with block (line 75), if entered, gives the connection
\* back to the pool, once, however the block is left.
Finish(u, e) ==
    /\ pc' = [pc EXCEPT ![u] = "done"]
    /\ outcome' = [outcome EXCEPT ![u] = e]
    /\ inUse' = inUse \ {u}
    /\ connOf' = [connOf EXCEPT ![u] = 0]
    /\ released' = [released EXCEPT ![u] = IF u \in inUse THEN @ + 1 ELSE @]
    /\ UNCHANGED acquired

\* Lines 104-106: log and emit finished for a caught exception.
Handle(u, e) ==
    /\ Finish(u, e)
    /\ logged' = logged \cup {u}
    /\ events' = Append(events, ReadErrorMessage(u))

\* An exception no except clause of process_file matches: it is stored in
\* the future.
Escape(u, e) ==
    /\ Finish(u, e)
    /\ UNCHANGED <<logged, events>>

Throw(u, e) == IF Caught(e) THEN Handle(u, e) ELSE Escape(u, e)

\* Mutant: the executor runs every submitted unit at once.
WorkerAlwaysFree == TRUE

\* ThreadPoolExecutor(max_workers=5): a thread of the executor is idle.
WorkerFree == Cardinality(Running) < max_workers

\* A worker thread of the executor takes the oldest queued unit and runs
\* lines 70-73 of process_file: open, json.load, data['acikAdresModel'].
\* Nothing here is shared with another unit but the handler's log and signal.
Start(u) ==
    /\ pc[u] = "queued"
    /\ \A v \in Files : v < u => pc[v] # "queued"
    /\ WorkerFree
    /\ preExisting' = IF IsRecord(u) /\ RowsOf(content[u].adresNo) # {}
                      THEN preExisting \cup {u} ELSE preExisting
    /\ CASE content[u].kind = "undecodable" ->
                \E e \in {"IOError", "JSONDecodeError"} : Throw(u, e)
         [] content[u].kind = "incomplete" ->
                \* acikAdresModel is missing, or it is adresNo that is
                \/ Throw(u, "KeyError")
                \/ /\ pc' = [pc EXCEPT ![u] = "connect"]
                   /\ UNCHANGED <<outcome, poolVars, logged, events>>
         [] OTHER -> /\ pc' = [pc EXCEPT ![u] = "connect"]
                     /\ UNCHANGED <<outcome, poolVars, logged, events>>
    /\ UNCHANGED <<inputVars, runVars, disk, rows, duplicates, count>>

\* The connections of the pool (pool_size=5, line 181) no unit holds. They
\* are interchangeable, and which of them get_connection hands out is the
\* pool's business: here the one at the unit's position in round-robin
\* order when it is free, else the lowest free one.
FreeConnections == (1..pool_size) \ {connOf[v] : v \in Files}
NextFreeConnection(u) ==
    LET turn == ((u - 1) % pool_size) + 1
    IN IF turn \in FreeConnections
       THEN turn
       ELSE CHOOSE c \in FreeConnections : \A d \in FreeConnections : c <= d

\* Line 75: self.pool.get_connection(): a connection of the pool, PoolError
\* when none is left, InterfaceError when the server cannot be reached.
GetConnection(u) ==
    /\ pc[u] = "connect"
    /\ \/ IF Cardinality(inUse) < pool_size
          THEN /\ inUse' = inUse \cup {u}
               /\ connOf' = [connOf EXCEPT ![u] = NextFreeConnection(u)]
               /\ acquired' = [acquired EXCEPT ![u] = @ + 1]
               /\ pc' = [pc EXCEPT ![u] = "query"]
               /\ UNCHANGED <<outcome, logged, events, released>>
          ELSE Throw(u, "PoolError")
       \/ Throw(u, "InterfaceError")
    /\ UNCHANGED <<inputVars, runVars, disk, rows, duplicates, count, preExisting>>

\* Lines 77-78: data['adresNo'], the COUNT query, fetchone; the query fails
\* with OperationalError when the connection is lost.
Query(u) ==
    /\ pc[u] = "query"
    /\ \/ IF content[u].kind = "incomplete"
          THEN /\ Throw(u, "KeyError")
               /\ UNCHANGED count
          ELSE /\ count' = [count EXCEPT ![u] = SelectCount(content[u].adresNo)]
               /\ pc' = [pc EXCEPT ![u] = "check"]
               /\ UNCHANGED <<outcome, poolVars, logged, events>>
       \/ /\ content[u].kind # "incomplete"
          /\ Throw(u, "OperationalError")
          /\ UNCHANGED count
    /\ UNCHANGED <<inputVars, runVars, disk, rows, duplicates, preExisting>>

\* Mutant: the test is off by one.
IsDuplicateOffByOne(c) == c > 1

\* Line 80: result[0] > 0.
IsDuplicate(c) == c > 0

\* Lines 80-82: a positive count records the path and returns.
Check(u) ==
    /\ pc[u] = "check"
    /\ IF IsDuplicate(count[u])
       THEN /\ duplicates' = Append(duplicates, u)
            /\ Finish(u, "duplicate")
       ELSE /\ pc' = [pc EXCEPT ![u] = "insert"]
            /\ UNCHANGED <<duplicates, outcome, poolVars>>
    /\ UNCHANGED <<inputVars, runVars, disk, rows, count, events, logged, preExisting>>

\* Mutant: os.remove placed before the INSERT.
InsertAfterRemove(u) ==
    /\ pc[u] = "insert"
    /\ disk' = disk \ {u}
    /\ \/ /\ \A v \in Files \ {u} :
                pc[v] = "commit" => content[v].adresNo # content[u].adresNo
          /\ IF PrimaryKeyViolation(content[u].adresNo)
             THEN Throw(u, "IntegrityError")
             ELSE /\ pc' = [pc EXCEPT ![u] = "commit"]
                  /\ UNCHANGED <<outcome, poolVars, logged, events>>
       \/ Throw(u, "OperationalError")
    /\ UNCHANGED <<inputVars, runVars, rows, duplicates, count, preExisting>>

\* Line 99: the INSERT. It waits while another transaction holds an
\* uncommitted row of the same key, then meets the primary key
\* (IntegrityError); any other failure (a lost connection, a value the
\* column refuses) is one more mysql.connector.Error, OperationalError here.
Insert(u) ==
    /\ pc[u] = "insert"
    /\ \/ /\ \A v \in Files \ {u} :
                pc[v] = "commit" => content[v].adresNo # content[u].adresNo
          /\ IF PrimaryKeyViolation(content[u].adresNo)
             THEN Throw(u, "IntegrityError")
             ELSE /\ pc' = [pc EXCEPT ![u] = "commit"]
                  /\ UNCHANGED <<outcome, poolVars, logged, events>>
       \/ Throw(u, "OperationalError")
    /\ UNCHANGED <<inputVars, runVars, disk, rows, duplicates, count, preExisting>>

\* Line 100: conn.commit().
Commit(u) ==
    /\ pc[u] = "commit"
    /\ \/ /\ rows' = rows \cup {[adresNo |-> content[u].adresNo, src |-> u]}
          /\ pc' = [pc EXCEPT ![u] = "remove"]
          /\ UNCHANGED <<outcome, poolVars, logged, events>>
       \/ /\ Throw(u, "OperationalError")
          /\ UNCHANGED rows
    /\ UNCHANGED <<inputVars, runVars, disk, duplicates, count, preExisting>>

\* Mutant: os.remove placed before conn.commit().
RemoveBeforeCommit(u) ==
    /\ pc[u] = "commit"
    /\ disk' = disk \ {u}
    /\ Finish(u, "inserted")
    /\ UNCHANGED <<logged, events>>
    /\ UNCHANGED <<inputVars, runVars, rows, duplicates, count, preExisting>>

\* Line 102: os.remove(data['file_path']).
Remove(u) ==
    /\ pc[u] = "remove"
    /\ \/ /\ disk' = disk \ {u}
          /\ Finish(u, "inserted")
          /\ UNCHANGED <<logged, events>>
       \/ /\ Throw(u, "OSError")
          /\ UNCHANGED disk
    /\ UNCHANGED <<inputVars, runVars, rows, duplicates, count, preExisting>>

----------------------------------------------------------------------------
\* Worker.run

\* Mutant: the batch test is off by one.
BatchEndsOffByOne(n, i) == n > batch_size \/ i = total_files

\* Line 46: the batch is full, or this was the last file.
BatchEnds(n, i) == n >= batch_size \/ i = total_files

\* Lines 43-46: submit one file and decide whether to wait.
Submit ==
    /\ runPc = "submit"
    /\ futures' = Append(futures, index)
    /\ pc' = [pc EXCEPT ![index] = "queued"]
    /\ IF BatchEnds(Len(futures'), index)
       THEN /\ runPc' = "await"
            /\ waitIdx' = 1
            /\ UNCHANGED index
       ELSE /\ index' = index + 1
            /\ UNCHANGED <<runPc, waitIdx>>
    /\ UNCHANGED <<inputVars, disk, rows, loaded_files, duplicates, exc, outcome,
                   count, poolVars, events, logged, preExisting, elapsed>>

\* Mutant: result() returns only for a unit that ended without an exception.
ResultReadyUnlessRaised(u) == pc[u] = "done" /\ ~Raises(u)

\* Mutant: the futures are not waited for.
ResultReadyAtOnce(u) == TRUE

\* future.result() returns (or raises) once the unit has ended.
ResultReady(u) == pc[u] = "done"

\* Lines 48-49: future.result() of the next future of the batch.
AwaitResult ==
    /\ runPc = "await"
    /\ ResultReady(futures[waitIdx])
    /\ IF Raises(futures[waitIdx])
       THEN /\ exc' = TRUE
            /\ runPc' = "exit"
            /\ UNCHANGED waitIdx
       ELSE /\ waitIdx' = waitIdx + 1
            /\ runPc' = IF waitIdx = Len(futures) THEN "report" ELSE "await"
            /\ UNCHANGED exc
    /\ UNCHANGED <<inputVars, disk, rows, index, futures, loaded_files, duplicates,
                   pc, outcome, count, poolVars, events, logged, preExisting, elapsed>>

\* Lines 50-59: count the batch, emit progress (and rate when time has
\* passed), clear the futures, go on with the loop.
Report ==
    /\ runPc = "report"
    /\ loaded_files' = loaded_files + Len(futures)
    /\ \E now \in {elapsed, 1} :
        /\ elapsed' = now
        /\ events' = Append(events,
                            Signal("progress", "", loaded_files', total_files))
                     \o (IF now > 0
                         THEN <<Signal("rate", "Sending rate: ", 0, 0)>>
                         ELSE <<>>)
    /\ futures' = <<>>
    /\ IF index = total_files
       THEN /\ runPc' = "finish"
            /\ UNCHANGED index
       ELSE /\ runPc' = "submit"
            /\ index' = index + 1
    /\ UNCHANGED <<inputVars, disk, rows, waitIdx, duplicates, exc, pc, outcome,
                   count, poolVars, logged, preExisting>>

\* Lines 61-62: the completion signal, still inside the with block.
EmitFinished ==
    /\ runPc = "finish"
    /\ events' = Append(events, CompletionMessage(duplicates))
    /\ runPc' = "exit"
    /\ UNCHANGED <<inputVars, disk, rows, index, futures, waitIdx, loaded_files,
                   duplicates, exc, pc, outcome, count, poolVars, logged, preExisting, elapsed>>

\* Mutant: shutdown(wait=False).
ExecutorExitNoWait ==
    /\ runPc = "exit"
    /\ runPc' = IF exc THEN "except" ELSE "done"
    /\ UNCHANGED <<inputVars, disk, rows, index, futures, waitIdx, loaded_files,
                   duplicates, exc, pc, outcome, count, poolVars, events, logged,
                   preExisting, elapsed>>

\* Line 39: leaving the with block is executor.shutdown(wait=True): every
\* submitted unit runs to its end first.
ExecutorExit ==
    /\ runPc = "exit"
    /\ \A u \in Files : pc[u] \in {"idle", "done"}
    /\ runPc' = IF exc THEN "except" ELSE "done"
    /\ UNCHANGED <<inputVars, disk, rows, index, futures, waitIdx, loaded_files,
                   duplicates, exc, pc, outcome, count, poolVars, events, logged,
                   preExisting, elapsed>>

\* Lines 64-66: except Exception.
RunExcept ==
    /\ runPc = "except"
    /\ logged' = logged \cup {0}
    /\ events' = Append(events, GeneralErrorMessage)
    /\ runPc' = "done"
    /\ UNCHANGED <<inputVars, disk, rows, index, futures, waitIdx, loaded_files,
                   duplicates, exc, pc, outcome, count, poolVars, preExisting, elapsed>>

----------------------------------------------------------------------------
Next ==
    \/ Submit
    \/ AwaitResult
    \/ Report
    \/ EmitFinished
    \/ ExecutorExit
    \/ RunExcept
    \/ \E u \in Files : Start(u)
    \/ \E u \in Files : GetConnection(u)
    \/ \E u \in Files : Query(u)
    \/ \E u \in Files : Check(u)
    \/ \E u \in Files : Insert(u)
    \/ \E u \in Files : Commit(u)
    \/ \E u \in Files : Remove(u)

Spec == Init /\ [][Next]_vars

\* Runs that load the executor and the pool: up to PoolFiles files in one
\* batch (batch_size is 500 in the application, so a short list is one
\* batch). A list of one file holds any content over any stored rows; a
\* longer list holds incomplete objects, whose units hold a connection from
\* get_connection to the failing key lookup and leave no row, list entry or
\* signal behind.
InitPool ==
    /\ \E n \in 1..PoolFiles :
        /\ file_list = [i \in 1..n |-> i]
        /\ \E c \in Contents, stored \in 0..MaxKey :
            /\ n > 1 => (c.kind = "incomplete" /\ stored = 0)
            /\ content = [i \in 1..n |-> c]
            /\ rows = {[adresNo |-> k, src |-> 0] : k \in 1..stored}
        /\ batch_size = n
        /\ disk = 1..n
        /\ pc = [i \in 1..n |-> "idle"]
        /\ outcome = [i \in 1..n |-> "none"]
        /\ count = [i \in 1..n |-> 0]
        /\ connOf = [i \in 1..n |-> 0]
        /\ acquired = [i \in 1..n |-> 0]
        /\ released = [i \in 1..n |-> 0]
        /\ window = Sent(n)
    /\ runPc = "submit"
    /\ index = 1
    /\ futures = <<>>
    /\ waitIdx = 1
    /\ loaded_files = 0
    /\ duplicates = <<>>
    /\ exc = FALSE
    /\ inUse = {}
    /\ events = <<>>
    /\ logged = {}
    /\ elapsed = 0
    /\ preExisting = {}

SpecPool == InitPool /\ [][Next]_vars

\* Scheduling: run is the body of a started QThread, and every submitted
\* unit gets one of the executor's threads once fewer than max_workers are
\* busy; a thread that can take its next step takes it. The calls a step
\* stands for (open, the connector, os.remove) return or raise.
RunStep ==
    \/ Submit
    \/ AwaitResult
    \/ Report
    \/ EmitFinished
    \/ ExecutorExit
    \/ RunExcept

UnitStep(u) ==
    /\ u \in Files
    /\ \/ Start(u)
       \/ GetConnection(u)
       \/ Query(u)
       \/ Check(u)
       \/ Insert(u)
       \/ Commit(u)
       \/ Remove(u)

\* Runs on up to LiveFiles files.
InitLive == Init /\ total_files <= LiveFiles

FairSpec ==
    /\ InitLive
    /\ [][Next]_vars
    /\ WF_vars(RunStep)
    /\ \A u \in 1..LiveFiles : WF_vars(UnitStep(u))

-----------------------------------------------------------------------------
\* JsonToDatabaseApp: the window's handlers, up to the start of its Worker

workerVars ==
    <<disk, rows, runPc, index, futures, waitIdx, loaded_files, duplicates,
      exc, pc, outcome, count, inUse, events, logged, elapsed, preExisting,
      connOf, acquired, released>>

\* The handlers run on the GUI thread, here before the Worker is started.
NotStarted == runPc = "none"

\* JsonToDatabaseApp.__init__ and initUI: no pool, 'Not connected', an
\* empty list widget.
Idle ==
    [pool |-> "None", db_status_label |-> "Not connected", items |-> 0,
     box |-> "none", last_connect |-> "none"]

\* Mutant: the handler of lines 229-233 without its last line.
HandlerKeepsPool(w) ==
    [w EXCEPT !.box = "Connection Error",
              !.db_status_label = "Not connected",
              !.last_connect = "error"]

\* except mysql.connector.Error (lines 229-233): the modal message box,
\* then the label and self.pool = None.
ConnectionErrorHandler(w) ==
    [w EXCEPT !.box = "Connection Error",
              !.db_status_label = "Not connected",
              !.pool = "None",
              !.last_connect = "error"]

\* connect_to_db (lines 174-233).
ConnectToDb ==
    /\ NotStarted
    /\ \/ \* self.pool.close() (line 177) on a pool object without a close
          \* method: AttributeError leaves connect_to_db, not being a
          \* mysql.connector.Error.
          /\ window.pool # "None"
          /\ window' = [window EXCEPT !.last_connect = "AttributeError"]
       \/ \* MySQLConnectionPool(...) (line 179) raises: self.pool is not
          \* assigned.
          window' = ConnectionErrorHandler(window)
       \/ \* the pool is assigned, then get_connection or the schema
          \* statements (lines 187-224) raise.
          window' = ConnectionErrorHandler([window EXCEPT !.pool = "pool"])
       \/ \* lines 179-227 succeed.
          window' = [window EXCEPT !.pool = "pool",
                                   !.db_status_label = "Connected",
                                   !.last_connect = "connected"]
    /\ UNCHANGED <<file_list, content, batch_size, workerVars>>

\* open_file_dialog (lines 235-244): the list widget is cleared and filled
\* with the folder's .json paths. A cancelled dialog changes nothing.
OpenFileDialog ==
    /\ NotStarted
    /\ \E k \in 0..AppFiles : window' = [window EXCEPT !.items = k]
    /\ UNCHANGED <<file_list, content, batch_size, workerVars>>

\* send_to_database (lines 246-261): the two refusals, else a Worker is
\* created on the listed paths with self.pool and self.batch_size and
\* started. What the paths hold shows when the units read them.
SendToDatabase ==
    /\ NotStarted
    /\ IF window.pool = "None"
       THEN /\ window' = [window EXCEPT !.box = "No Database Connection"]
            /\ UNCHANGED <<file_list, content, batch_size, workerVars>>
       ELSE IF window.items = 0
       THEN /\ window' = [window EXCEPT !.box = "No File Selected"]
            /\ UNCHANGED <<file_list, content, batch_size, workerVars>>
       ELSE /\ file_list' = [i \in 1..window.items |-> i]
            /\ content' \in [1..window.items -> Contents]
            /\ batch_size' = app_batch_size
            /\ disk' = 1..window.items
            /\ pc' = [i \in 1..window.items |-> "idle"]
            /\ outcome' = [i \in 1..window.items |-> "none"]
            /\ count' = [i \in 1..window.items |-> 0]
            /\ connOf' = [i \in 1..window.items |-> 0]
            /\ acquired' = [i \in 1..window.items |-> 0]
            /\ released' = [i \in 1..window.items |-> 0]
            /\ runPc' = "submit"
            /\ UNCHANGED <<window, rows, index, futures, waitIdx, loaded_files,
                           duplicates, exc, inUse, events, logged, elapsed,
                           preExisting>>

\* The window after construction, no Worker yet.
InitApp ==
    /\ window = Idle
    /\ file_list = <<>>
    /\ content = <<>>
    /\ batch_size = app_batch_size
    /\ disk = {}
    /\ pc = <<>>
    /\ outcome = <<>>
    /\ count = <<>>
    /\ connOf = <<>>
    /\ acquired = <<>>
    /\ released = <<>>
    /\ \E stored \in 0..MaxKey :
        rows = {[adresNo |-> k, src |-> 0] : k \in 1..stored}
    /\ runPc = "none"
    /\ index = 1
    /\ futures = <<>>
    /\ waitIdx = 1
    /\ loaded_files = 0
    /\ duplicates = <<>>
    /\ exc = FALSE
    /\ inUse = {}
    /\ events = <<>>
    /\ logged = {}
    /\ elapsed = 0
    /\ preExisting = {}

NextApp ==
    \/ ConnectToDb
    \/ OpenFileDialog
    \/ SendToDatabase
    \/ Next

SpecApp == InitApp /\ [][NextApp]_vars

----------------------------------------------------------------------------
\* Vocabulary of the properties.

CeilDiv(n, b) == (n + b - 1) \div b

IsProgress(e) == e.sig = "progress"
ProgressEvents == SelectSeq(events, IsProgress)

Occurrences(seq, x) == Cardinality({i \in 1..Len(seq) : seq[i] = x})

Key(f) == content[f].adresNo
RowBy(f) == [adresNo |-> Key(f), src |-> f]

\* The exceptions a failing database call raises (mysql.connector.Error).
StorageErrors == {"InterfaceError", "OperationalError", "IntegrityError",
                  "PoolError"}

\* Every file of the run is a complete record or cannot be decoded.
NoIncompleteFile == \A f \in Files : content[f].kind # "incomplete"

RunEnded == runPc = "done"
NormalCompletion ==
    /\ events # <<>>
    /\ events[Len(events)] = CompletionMessage(duplicates)

\* The unit's insert has been committed.
Committed(u) == pc[u] = "remove" \/ outcome[u] \in {"inserted", "OSError"}

\* 0-based number of the batch a file falls in.
BatchOf(f) == (f - 1) \div batch_size

----------------------------------------------------------------------------
\* C1: a run over N files with batch size B emits exactly ceil(N/B) progress
\* events, whatever the per-file outcomes are (storage errors included).
C1_ProgressCountAnyOutcome ==
    (RunEnded /\ NoIncompleteFile)
    => Len(ProgressEvents) = CeilDiv(total_files, batch_size)

C3_RemovedOnlyAfterCommit ==
    \A f \in Files : f \notin disk => RowBy(f) \in rows

C3_Witness ==
    \E f \in Files : f \notin disk /\ \E g \in Files : pc[g] \notin {"idle", "done"}

\* C4: a storage error in one unit's query or insert ends only that unit: the
\* run still dispatches every batch and ends with the normal completion.
C4_StorageErrorIsFileScoped ==
    (/\ RunEnded
     /\ NoIncompleteFile
     /\ \E u \in Files :
            outcome[u] \in {"OperationalError", "IntegrityError"}
     /\ \A u \in Files : outcome[u] \notin {"InterfaceError", "PoolError"})
    => /\ ~exc
       /\ \A u \in Files : pc[u] = "done"
       /\ NormalCompletion

\* C5: data_json never holds two rows of one adresNo, and of the units that
\* carry the same adresNo at most one reaches commit.
C5_OneInsertPerKey ==
    /\ \A k \in Keys : Cardinality(RowsOf(k)) <= 1
    /\ \A u, v \in Files :
        (u # v /\ Committed(u) /\ Committed(v)) => Key(u) # Key(v)

\* Two units of one batch with the same key both passed the pre-check with
\* count 0; one committed and the other was refused by the primary key.
C5_Witness ==
    \E u, v \in Files :
        /\ u # v
        /\ BatchOf(u) = BatchOf(v)
        /\ IsRecord(u) /\ IsRecord(v) /\ Key(u) = Key(v)
        /\ count[u] = 0 /\ count[v] = 0
        /\ Committed(u)
        /\ outcome[v] = "IntegrityError"

\* C6: batches are strictly sequential: no unit of a later batch is submitted,
\* and the progress event of a batch is not emitted, while a unit of that
\* batch has not produced its result.
C6_BatchesSequential ==
    /\ \A u, v \in Files :
        (BatchOf(u) < BatchOf(v) /\ pc[v] # "idle") => pc[u] = "done"
    /\ \A u \in Files : BatchOf(u) < Len(ProgressEvents) => pc[u] = "done"

C6_Witness ==
    /\ batch_size >= 2
    /\ Len(ProgressEvents) = 1
    /\ \E v \in Files : BatchOf(v) = 1 /\ pc[v] \notin {"idle", "queued", "done"}

\* C7: a run that ends without a run-level fault reports the number of files
\* its units recorded as duplicates (no append lost), or plain success when
\* there is none.
C7_CompletionMessage ==
    (RunEnded /\ ~exc) =>
        LET dups == {u \in Files : outcome[u] = "duplicate"}
            d == Cardinality(dups)
        IN /\ Len(duplicates) = d
           /\ \A u \in dups : Occurrences(duplicates, u) = 1
           /\ events # <<>>
           /\ events[Len(events)] =
                IF d > 0
                THEN [sig |-> "finished",
                      msg |-> "Process completed. Duplicate files: ",
                      n |-> d, total |-> 0]
                ELSE [sig |-> "finished", msg |-> "All files sent successfully.",
                      n |-> 0, total |-> 0]

\* Both completions occur; here two concurrent units appended out of order.
C7_Witness ==
    /\ RunEnded /\ ~exc
    /\ duplicates = <<2, 1>>

C7_WitnessNoDuplicate ==
    /\ RunEnded /\ ~exc
    /\ duplicates = <<>>
    /\ \E u \in Files : outcome[u] = "inserted"

\* C8: when the run has ended, the file of every record its unit inserted and
\* committed is gone, unless its removal failed, and then that is logged.
C8_InsertedFilesGone ==
    RunEnded =>
        \A u \in Files :
            RowBy(u) \in rows =>
                \/ u \notin disk
                \/ outcome[u] = "OSError" /\ u \in logged

C8_Witness ==
    /\ RunEnded
    /\ \E u, v \in Files :
        /\ RowBy(u) \in rows /\ u \notin disk
        /\ RowBy(v) \in rows /\ v \in disk /\ v \in logged

AllKeysStored ==
    \A f \in Files : IsRecord(f) /\ [adresNo |-> Key(f), src |-> 0] \in rows

AllReportedDuplicate ==
    /\ \A f \in Files : Occurrences(duplicates, f) = 1
    /\ events # <<>>
    /\ events[Len(events)] =
        [sig |-> "finished", msg |-> "Process completed. Duplicate files: ",
         n |-> total_files, total |-> 0]

----------------------------------------------------------------------------
\* A completion signal of run itself (lines 61-62 and 66), as opposed to the
\* finished signal process_file emits at line 106.
IsRunCompletion(e) ==
    /\ e.sig = "finished"
    /\ e.msg # "Error: An error occurred while reading the file "

IsFinished(e) == e.sig = "finished"

Min(a, b) == IF a <= b THEN a ELSE b

\* C11: a well-formed JSON file lacking adresNo or acikAdresModel is a
\* file-scoped error: it does not reach the run, which still dispatches every
\* batch and ends with the normal completion.
C11_MissingKeyIsFileScoped ==
    (/\ RunEnded
     /\ \E u \in Files : outcome[u] = "KeyError"
     /\ \A u \in Files : outcome[u] \notin StorageErrors)
    => /\ ~exc
       /\ \A u \in Files : pc[u] = "done"
       /\ NormalCompletion


\* C12: a unit whose insert is refused by the primary key, another unit having
\* committed the same adresNo after this unit's pre-check, keeps its source
\* file, and the committed row stays the only row of the key.
C12_LateDuplicateKeepsFileAndRow ==
    \A u \in Files :
        outcome[u] = "IntegrityError" =>
            /\ count[u] = 0
            /\ u \in disk
            /\ RowBy(u) \notin rows
            /\ \E v \in Files \ {u} :
                /\ Committed(v)
                /\ RowsOf(Key(u)) = {RowBy(v)}

C12_Witness ==
    \E u, v \in Files :
        /\ u < v
        /\ outcome[u] = "IntegrityError"
        /\ outcome[v] = "inserted"
        /\ RunEnded

\* C13: a failed removal after the commit is file-scoped: the committed row
\* stays, the failure is logged, and where no unit fails on a key or on the
\* database the run processes every file and ends with the normal completion.
C13_RemovalFailureIsFileScoped ==
    /\ \A u \in Files :
        outcome[u] = "OSError" =>
            /\ RowBy(u) \in rows
            /\ u \in disk
            /\ u \in logged
    /\ (/\ RunEnded
        /\ \E u \in Files : outcome[u] = "OSError"
        /\ \A u \in Files : outcome[u] \notin StorageErrors \cup {"KeyError"})
        => /\ ~exc
           /\ \A u \in Files : pc[u] = "done"
           /\ loaded_files = total_files
           /\ NormalCompletion

C13_Witness ==
    /\ RunEnded
    /\ NormalCompletion
    /\ \E f, g \in Files :
        /\ BatchOf(f) < BatchOf(g)
        /\ outcome[f] = "OSError"
        /\ outcome[g] = "inserted"

\* C16: a failing unit does not stop the other units of its batch: when run
\* emits its completion, every submitted unit has produced its result, the
\* whole batch of any failed unit included.
C16_BatchUnitsAllFinish ==
    (\E i \in 1..Len(events) : IsRunCompletion(events[i])) =>
        /\ \A u \in Files : pc[u] \in {"idle", "done"}
        /\ \A u, v \in Files :
            (outcome[u] \in Exceptions /\ BatchOf(u) = BatchOf(v)) => pc[v] = "done"

\* The first unit of a batch of two escaped with an exception; the second
\* still committed its insert and removed its file before the run completed.
C16_Witness ==
    /\ RunEnded
    /\ exc
    /\ \E u, v \in Files :
        /\ u < v
        /\ BatchOf(u) = BatchOf(v)
        /\ Raises(u)
        /\ outcome[v] = "inserted"

\* C17: the k-th progress event reports min(k*B, N) of N: cumulative, strictly
\* increasing, never above N, duplicates and failed files counted, and N of N
\* in the last event of a run that completes normally.
C17_ProgressCounts ==
    /\ \A k \in 1..Len(ProgressEvents) :
        /\ ProgressEvents[k].n = Min(k * batch_size, total_files)
        /\ ProgressEvents[k].total = total_files
        /\ k > 1 => ProgressEvents[k].n > ProgressEvents[k - 1].n
    /\ (RunEnded /\ ~exc) =>
        /\ ProgressEvents # <<>>
        /\ ProgressEvents[Len(ProgressEvents)].n = total_files

\* Three files in batches of two, a duplicate and an undecodable file among
\* them: the events are 2/3 and 3/3.
C17_Witness ==
    /\ RunEnded /\ ~exc
    /\ total_files = 3 /\ batch_size = 2
    /\ Len(ProgressEvents) = 2
    /\ ProgressEvents[1].n = 2 /\ ProgressEvents[2].n = 3
    /\ \E u, v \in Files :
        outcome[u] = "duplicate" /\ outcome[v] \in {"IOError", "JSONDecodeError"}

\* C20: the finished signal is emitted exactly once per run, nothing follows
\* it, and it is emitted only after every submitted unit has ended, also in
\* runs with unreadable or malformed files.
C20_FinishedOnceAndLast ==
    LET fin == {i \in 1..Len(events) : IsFinished(events[i])}
    IN /\ Cardinality(fin) <= 1
       /\ \A i \in fin : i = Len(events)
       /\ fin # {} => \A u \in Files : pc[u] \in {"idle", "done"}
       /\ RunEnded => Cardinality(fin) = 1

\* C14: a unit that takes a connection gives it back exactly once on every
\* way out of process_file, a unit that fails while decoding takes none, and
\* no connection is checked out once the run has ended.
C14_ConnectionReleasedOnce ==
    /\ \A u \in Files :
        /\ acquired[u] <= 1
        /\ released[u] <= acquired[u]
        /\ u \in inUse <=> (acquired[u] = 1 /\ released[u] = 0)
        /\ pc[u] = "done" => released[u] = acquired[u]
        /\ outcome[u] \in {"IOError", "JSONDecodeError"} => acquired[u] = 0
    /\ RunEnded => (inUse = {} /\ \A u \in Files : connOf[u] = 0)

\* A run in which a duplicate, a failed removal and a failed database call
\* each gave their connection back.
C14_Witness ==
    /\ RunEnded
    /\ \E u, v, w \in Files :
        /\ outcome[u] = "duplicate" /\ released[u] = 1
        /\ outcome[v] = "OSError" /\ released[v] = 1
        /\ outcome[w] \in {"OperationalError", "IntegrityError", "KeyError"}
        /\ released[w] = 1

\* C15: within a run at most max_workers (5) units execute at a time, a unit
\* holds at most one connection, no connection is held by two units, at most
\* pool_size (5) connections are checked out, and no unit is refused a
\* connection because the pool is exhausted.
C15_WorkersWithinPool ==
    /\ Cardinality(Running) <= max_workers
    /\ \A u \in Files :
        /\ acquired[u] - released[u] \in {0, 1}
        /\ connOf[u] \in 0..pool_size
        /\ connOf[u] # 0 <=> u \in inUse
        /\ outcome[u] # "PoolError"
    /\ \A u, v \in Files : (u # v /\ connOf[u] # 0) => connOf[u] # connOf[v]
    /\ inUse \subseteq Running
    /\ Cardinality(inUse) <= pool_size

\* Five units hold the five connections while a sixth waits for a thread.
C15_Witness ==
    /\ Cardinality(Running) = max_workers
    /\ Cardinality(inUse) = pool_size
    /\ \E u \in Files : pc[u] = "queued"

\* C18: send_to_database starts a Worker only when a pool is established and
\* the file list is not empty; after connect_to_db has failed with a storage
\* error the pool is unset, and no run starts until a connect has succeeded.
C18_StartsOnlyWhenReady ==
    [][(runPc = "none" /\ runPc' # "none") =>
          /\ window.pool = "pool"
          /\ window.items > 0
          /\ window.last_connect # "error"
          /\ Len(file_list') = window.items]_vars

C18_RunNeedsPoolAndFiles ==
    /\ [](window.last_connect = "error" => window.pool = "None")
    /\ [](runPc # "none" => (window.pool = "pool" /\ total_files > 0))
    /\ C18_StartsOnlyWhenReady

\* A connect has failed, a send was refused for the missing pool although
\* files are listed, and no run has started.
C18_Witness ==
    /\ window.last_connect = "error"
    /\ window.box = "No Database Connection"
    /\ window.items > 0
    /\ runPc = "none"

\* C19: under fair scheduling every started run ends, having emitted a
\* completion signal of its own: the summary or the "Error: ..." message.
C19_RunTerminates ==
    <>(RunEnded /\ \E i \in 1..Len(events) : IsRunCompletion(events[i]))

\* A run that waited for a batch of two with mixed outcomes has ended.
C19_Witness ==
    /\ RunEnded
    /\ IsRunCompletion(events[Len(events)])
    /\ batch_size = 2
    /\ \E u, v \in Files :
        /\ outcome[u] \in Exceptions
        /\ outcome[v] \in {"inserted", "duplicate"}

====
